---- MODULE Spec2Model ----
(***************************************************************************)
(* Howto100m (src/lib/datasets/howto100m.py): the per-item sampling engine *)
(* of the dataset.  __len__, __getitem__ with its bounded retry loop, the  *)
(* caption pick and minimum-length expansion, and the window planning      *)
(* around get_start_end_idx.                                               *)
(*                                                                         *)
(* Times are Python floats in the source.  Here every time is an integer   *)
(* number of ticks, TicksPerSecond ticks to the second, so that the two    *)
(* true divisions of the source, x / 2.0 and delta * clip_idx / num_clips  *)
(* (num_clips in ViewChoices), are exact.  random.uniform(0, delta) is a   *)
(* choice among the half-second points of [0, delta].                      *)
(***************************************************************************)
EXTENDS Integers, Sequences, FiniteSets, TLC

VARIABLES
    cfg,        \* self.cfg, self.mode, self._num_retries, self.caps, ... (read-only)
    samples,    \* the parallel lists _path_to_videos, _labels, _durations, _start, _end, _spatial_temporal_idx
    labels,     \* self.labels is not None (some manifest row had 6 fields)
    captions,   \* the caption table of every video id (the csv files under self.caps)
    pc,         \* position in __len__ / __getitem__
    len_ret,    \* value returned by __len__
    index,      \* __getitem__: index
    i_try,      \* __getitem__: loop variable of the retry loop
    attempts,   \* number of loop bodies begun so far
    substituted,\* the last failed attempt drew index from random.randint
    temporal_sample_index,
    spatial_sample_index,
    video_container, \* path held by the opened container, or None
    duration, start, end,   \* locals of the attempt, in ticks
    cap,        \* the table read by pd.read_csv in this attempt
    ind, mi, q, s, e,       \* locals of the caption pick and expansion
    acc,        \* record indices read or written by the expansion loop
    cap_emb,    \* embedding row attached: <<video id, row>> or None
    text,       \* tokenised caption (its pieces) or None
    ret         \* what __getitem__ handed back

vars == <<cfg, samples, labels, captions, pc, len_ret, index, i_try, attempts,
          substituted, temporal_sample_index, spatial_sample_index,
          video_container, duration, start, end, cap, ind, mi, q, s, e, acc,
          cap_emb, text, ret>>

----------------------------------------------------------------------------
(* Bounds of the model *)

MaxRetries == 5     \* num_retries ranges over 0..MaxRetries
MaxLines == 2       \* manifest lines
MaxCap == 3         \* rows of a caption table
MaxDuration == 4    \* seconds
MaxFD == 3          \* cfg.DATA.FD, seconds
MaxMinLen == 3      \* cfg.MODEL.MIN_LEN
MaxEm == 2          \* cfg.TRAIN.EPOCH_MUL

TicksPerSecond == 2 * 2
ViewChoices == {1, 2}     \* cfg.TEST.NUM_ENSEMBLE_VIEWS
CropChoices == {1, 2}     \* cfg.TEST.NUM_SPATIAL_CROPS

None == 0 - 1000000       \* Python's None where a number may stand
NaN == << >>              \* a caption text cell that is not a str (pandas' NaN)

Sec(n) == n * TicksPerSecond
Max(a, b) == IF a >= b THEN a ELSE b
Min(a, b) == IF a <= b THEN a ELSE b

----------------------------------------------------------------------------
(* Pure functions of the source *)

\* check_time(s1, e1, s2, e2)
check_time(s1, e1, s2, e2) == Max(Min(e1, e2) - Max(s1, s2), 0)

\* random.uniform(0, delta): the half-second points of [0, delta]
Uniform(delta) == {x \in 0..delta : x % (TicksPerSecond \div 2) = 0}

\* delta without its clamp at 0
ClipDeltaUnclamped(video_size, clip_size) == video_size - clip_size

\* delta of get_start_end_idx
ClipDelta(video_size, clip_size) == Max(video_size - clip_size, 0)

\* end_idx of get_start_end_idx
ClipEnd(start_idx, clip_size) == start_idx + clip_size - Sec(1)

\* get_start_end_idx: the set of (start_idx, end_idx) it may return
get_start_end_idx(video_size, clip_size, clip_idx, num_clips) ==
    LET delta == ClipDelta(video_size, clip_size)
        starts == IF clip_idx = -1
                    THEN Uniform(delta)
                    ELSE {(delta * clip_idx) \div num_clips}
    IN  {<<st, ClipEnd(st, clip_size)>> : st \in starts}

\* len(q.split(" ")): a text is the sequence of its space-separated words, each
\* word tagged with the caption row it came from (-1: an empty word of " ")
SplitLen(qq) == Len(qq)
Blank == <<-1, -1>>       \* " ".split(" ") has two (empty) words
IsStr(t) == t # NaN

\* cap[col].values[i], rows counted from 0 as in the source
Row(tbl, i) == tbl[i + 1]

\* Python's range(n)
Range(n) == 0..(n - 1)

\* temp of lines 381-387: the overlap of every row with (start, end)
Overlaps(tbl, st, en) ==
    [i \in Range(Len(tbl)) |-> check_time(st, en, Row(tbl, i).start, Row(tbl, i).end)]

\* an argmax that keeps the last index of a maximum
argmaxLast(temp) ==
    CHOOSE i \in DOMAIN temp :
        /\ \A j \in DOMAIN temp : temp[j] <= temp[i]
        /\ \A j \in DOMAIN temp : j > i => temp[j] < temp[i]

\* np.argmax(temp): the first index of a maximum
argmax(temp) ==
    CHOOSE i \in DOMAIN temp :
        /\ \A j \in DOMAIN temp : temp[j] <= temp[i]
        /\ \A j \in DOMAIN temp : j < i => temp[j] < temp[i]

\* _construct_loader: every manifest line is repeated num_clips times
NumClips(mode, views, crops) == IF mode = "test" THEN views * crops ELSE 1

LineOf(k, num_clips) == k \div num_clips
ClipOf(k, num_clips) == k % num_clips

construct_loader(lines, num_clips) ==
    [k \in Range(Len(lines) * num_clips) |->
        LET ln == Row(lines, LineOf(k, num_clips))
        IN  [path     |-> LineOf(k, num_clips),
             label    |-> ln.label,
             duration |-> ln.duration,
             start    |-> IF ln.nf = 3 THEN None ELSE ln.start,
             end      |-> IF ln.nf = 3 THEN None ELSE ln.end,
             spatial_temporal_idx |-> ClipOf(k, num_clips)]]

\* len(self._path_to_videos)
N == Cardinality(DOMAIN samples)

\* hasattr(self, "em") and self.em > 1
EmOn(em) == em # None /\ em > 1

\* a length multiplied in every mode
DatasetLengthAnyMode(n, em, mode) ==
    IF EmOn(em) THEN n * em ELSE n

\* __len__
DatasetLength(n, em, mode) ==
    IF EmOn(em) /\ mode = "train" THEN n * em ELSE n

\* index wrap of __getitem__ (lines 283-284)
WrapIndex(i, n, em) == IF EmOn(em) THEN i % n ELSE i

\* temporal_sample_index and spatial_sample_index (lines 285-316)
TemporalIndex(mode, st_idx, crops) ==
    IF mode = "test" THEN st_idx \div crops ELSE -1

SpatialIndex(mode, st_idx, crops) ==
    IF mode = "test" THEN (IF crops > 1 THEN st_idx % crops ELSE 1) ELSE -1

\* a loop that runs once more: range(self._num_retries + 1)
LoopHasNextOffByOne(i, num_retries) == i <= num_retries

\* range(self._num_retries) has another value
LoopHasNext(i, num_retries) == i < num_retries

\* the index substitution of the two failure branches: does it draw?
OpenFailDraws(mode, i, num_retries) ==
    mode # "test" /\ i > num_retries \div 2

DecodeFailDraws(mode, i, num_retries) ==
    \/ mode # "test"
    \/ mode = "test" /\ i > num_retries \div 2

\* random.randint(0, len(self._path_to_videos) - 1)
RandomIndex(n) == Range(n)

\* lines 438-440: the short window re-centred on its middle
NeedsRecenter(st, en, fd) == en - st < fd - Sec(1)

\* the new start without its clamp at 0
RecenterStartUnclamped(st, en, fd) == (en + st) \div 2 - fd \div 2

RecenterStart(st, en, fd) == Max((en + st) \div 2 - fd \div 2, 0)

\* the new end without its clamp at the duration
RecenterEndUnclamped(new_start, fd, dur) == new_start + fd

RecenterEnd(new_start, fd, dur) == Min(new_start + fd, dur)

Recentered(st, en, fd, dur) ==
    LET new_start == RecenterStart(st, en, fd)
    IN  <<new_start, RecenterEnd(new_start, fd, dur)>>

\* lines 442-456: the windows the try block may leave in (start, end)
Reconciled(st, en, fd, num_frames, clip_idx, num_clips) ==
    IF en - st > num_frames /\ fd = 0
      THEN {<<(en + st) \div 2 - num_frames \div 2,
              (en + st) \div 2 + num_frames \div 2>>}
      ELSE IF fd > 0 /\ fd < en - st
             THEN {<<w[1] + st, w[2] + st>> :
                      w \in get_start_end_idx(en - st, fd, clip_idx, num_clips)}
             ELSE {<<st, en>>}

\* lines 459-468: the FIX_END branch, from the manifest's start and end
FixEndWindows(st, en, fd, clip_idx, num_clips) ==
    IF fd < en - st
      THEN get_start_end_idx(en - st, fd, clip_idx, num_clips)
      ELSE {<<st, en>>}

----------------------------------------------------------------------------
(* State *)

static == <<cfg, samples, labels, captions>>
capvars == <<cap, ind, mi, q, s, e, acc, cap_emb, text>>
winvars == <<duration, start, end>>
loopvars == <<index, i_try, attempts, substituted, temporal_sample_index,
              spatial_sample_index, video_container>>

Sample == samples[index]
NoResult == [status |-> "none", frames |-> << >>, label |-> None,
             index |-> None, text |-> NaN, emb |-> << >>]

\* the condition of line 369-371 on entering the caption block
UsesCaptions(st) ==
    (st = None \/ cfg.caps) /\ ~(~cfg.caps /\ ~labels)

\* the locals of an attempt before the attempt assigns them
DeadLocals ==
    /\ duration = None /\ start = None /\ end = None
    /\ cap = << >> /\ ind = None /\ mi = None /\ q = NaN
    /\ s = None /\ e = None /\ acc = {}
    /\ cap_emb = << >> /\ text = NaN

DropLocals ==
    /\ duration' = None /\ start' = None /\ end' = None
    /\ cap' = << >> /\ ind' = None /\ mi' = None /\ q' = NaN
    /\ s' = None /\ e' = None /\ acc' = {}
    /\ cap_emb' = << >> /\ text' = NaN

----------------------------------------------------------------------------
(* __len__ *)

DatasetLen ==
    /\ pc = "new"
    /\ len_ret' = DatasetLength(N, cfg.em, cfg.mode)
    /\ pc' = "idle"
    /\ UNCHANGED <<static, loopvars, winvars, capvars, ret>>

(* __getitem__ up to the retry loop; the sampler draws i below len(dataset) *)
GetItem ==
    /\ pc = "idle"
    /\ \E i \in Range(len_ret) :
         LET wrapped == WrapIndex(i, N, cfg.em)
         IN  /\ index' = wrapped
             /\ temporal_sample_index' =
                  TemporalIndex(cfg.mode, samples[wrapped].spatial_temporal_idx,
                                cfg.NUM_SPATIAL_CROPS)
             /\ spatial_sample_index' =
                  SpatialIndex(cfg.mode, samples[wrapped].spatial_temporal_idx,
                               cfg.NUM_SPATIAL_CROPS)
    /\ i_try' = 0
    /\ pc' = "loop"
    /\ UNCHANGED <<static, len_ret, attempts, substituted, video_container,
                   winvars, capvars, ret>>

(* for i_try in range(self._num_retries): the body begins.  The locals the
   previous body left behind are dead, each is assigned again before it is
   read (lines 335, 362-368, 375-399), and are dropped here. *)
LoopBody ==
    /\ pc = "loop"
    /\ LoopHasNext(i_try, cfg.num_retries)
    /\ attempts' = attempts + 1
    /\ video_container' = None
    /\ DropLocals
    /\ pc' = IF cfg.backend # "ffmpeg" THEN "open" ELSE "row"
    /\ UNCHANGED <<static, len_ret, index, i_try, substituted,
                   temporal_sample_index, spatial_sample_index, ret>>

(* the loop is exhausted: the function falls off its end and returns None *)
LoopExhausted ==
    /\ pc = "loop"
    /\ ~LoopHasNext(i_try, cfg.num_retries)
    /\ ret' = [NoResult EXCEPT !.status = "None"]
    /\ pc' = "done"
    /\ UNCHANGED <<static, len_ret, loopvars, winvars, capvars>>

(* container.get_video_container succeeded *)
OpenOk ==
    /\ pc = "open"
    /\ video_container' = Sample.path
    /\ pc' = "row"
    /\ UNCHANGED <<static, len_ret, index, i_try, attempts, substituted,
                   temporal_sample_index, spatial_sample_index,
                   winvars, capvars, ret>>

(* container.get_video_container raised: lines 350-360 *)
OpenFail ==
    /\ pc = "open"
    /\ substituted' = OpenFailDraws(cfg.mode, i_try, cfg.num_retries)
    /\ index' \in (IF substituted' THEN RandomIndex(N) ELSE {index})
    /\ i_try' = i_try + 1
    /\ pc' = "loop"
    /\ UNCHANGED <<static, len_ret, attempts, temporal_sample_index,
                   spatial_sample_index, video_container, winvars, capvars, ret>>

(* lines 362-371 *)
ReadRow ==
    /\ pc = "row"
    /\ duration' = Sec(Sample.duration)
    /\ start' = IF Sample.start = None THEN None ELSE Sec(Sample.start)
    /\ end' = IF Sample.end = None THEN None ELSE Sec(Sample.end)
    /\ text' = NaN
    /\ pc' = IF UsesCaptions(Sample.start) THEN "read_cap" ELSE "plan"
    /\ UNCHANGED <<static, len_ret, loopvars, cap, ind, mi, q, s, e, acc,
                   cap_emb, ret>>

----------------------------------------------------------------------------
(* The caption block, lines 372-430 *)

\* self.caps is None here (only self.labels is set): self.caps + vidid raises
ReadCapRaise ==
    /\ pc = "read_cap"
    /\ ~cfg.caps
    /\ ret' = [NoResult EXCEPT !.status = "TypeError"]
    /\ pc' = "done"
    /\ UNCHANGED <<static, len_ret, loopvars, winvars, capvars>>

\* ind of lines 378-388
PickRows(tbl, st, en) ==
    IF st = None THEN Range(Len(tbl)) ELSE {argmax(Overlaps(tbl, st, en))}

\* pd.read_csv, the pick of ind and the embedding row
ReadCap ==
    /\ pc = "read_cap"
    /\ cfg.caps
    /\ cap' = captions[Sample.path]
    /\ ind' \in PickRows(cap', start, end)
    /\ cap_emb' = IF cfg.caps_emb THEN <<Sample.path, ind'>> ELSE << >>
    /\ pc' = IF cfg.min_len > 0 THEN "exp_init" ELSE "cap_tok"
    /\ UNCHANGED <<static, len_ret, loopvars, winvars, mi, q, s, e, acc, text, ret>>

\* cap["text"].values[i]; rows outside the table read as not-a-str, and acc
\* keeps the index
CellText(tbl, i) == IF i \in Range(Len(tbl)) THEN Row(tbl, i).text ELSE NaN
CellStart(tbl, i) == IF i \in Range(Len(tbl)) THEN Row(tbl, i).start ELSE None
CellEnd(tbl, i) == IF i \in Range(Len(tbl)) THEN Row(tbl, i).end ELSE None

\* the guards of the expansion loop
LoopTest(qq, min_len) == SplitLen(qq) < min_len
HasPrev(i, m) == i - m > 0

\* a following-row guard that lets the subscript reach len(cap)
HasNextOffByOne(i, m, n) == i + m <= n

HasNext(i, m, n) == i + m < n
BothExhausted(i, m, n) == ~HasPrev(i, m) /\ ~HasNext(i, m, n)

\* lines 395-399
ExpInit ==
    /\ pc = "exp_init"
    /\ mi' = 0
    /\ q' = IF IsStr(CellText(cap, ind)) THEN CellText(cap, ind) ELSE Blank
    /\ s' = CellStart(cap, ind)
    /\ e' = CellEnd(cap, ind)
    /\ acc' = {ind}
    /\ pc' = "exp_test"
    /\ UNCHANGED <<static, len_ret, loopvars, winvars, cap, ind, cap_emb, text, ret>>

\* line 400
ExpTest ==
    /\ pc = "exp_test"
    /\ pc' = IF LoopTest(q, cfg.min_len) THEN "exp_prev" ELSE "exp_store"
    /\ UNCHANGED <<static, len_ret, loopvars, winvars, capvars, ret>>

\* lines 401-405
ExpPrev ==
    /\ pc = "exp_prev"
    /\ IF HasPrev(ind, mi)
         THEN /\ acc' = acc \cup {ind - mi}
              /\ IF IsStr(CellText(cap, ind - mi))
                   THEN /\ q' = CellText(cap, ind - mi) \o q
                        /\ s' = CellStart(cap, ind - mi)
                   ELSE UNCHANGED <<q, s>>
         ELSE UNCHANGED <<acc, q, s>>
    /\ pc' = "exp_next"
    /\ UNCHANGED <<static, len_ret, loopvars, winvars, cap, ind, mi, e,
                   cap_emb, text, ret>>

\* lines 406-410
ExpNext ==
    /\ pc = "exp_next"
    /\ IF HasNext(ind, mi, Len(cap))
         THEN /\ acc' = acc \cup {ind + mi}
              /\ IF IsStr(CellText(cap, ind + mi))
                   THEN /\ q' = q \o CellText(cap, ind + mi)
                        /\ e' = CellEnd(cap, ind + mi)
                   ELSE UNCHANGED <<q, e>>
         ELSE UNCHANGED <<acc, q, e>>
    /\ pc' = "exp_inc"
    /\ UNCHANGED <<static, len_ret, loopvars, winvars, cap, ind, mi, s,
                   cap_emb, text, ret>>

\* lines 411-413
ExpInc ==
    /\ pc = "exp_inc"
    /\ mi' = mi + 1
    /\ pc' = IF BothExhausted(ind, mi', Len(cap)) THEN "exp_store" ELSE "exp_test"
    /\ UNCHANGED <<static, len_ret, loopvars, winvars, cap, ind, q, s, e, acc,
                   cap_emb, text, ret>>

\* lines 414-416
ExpStore ==
    /\ pc = "exp_store"
    /\ cap' = [cap EXCEPT ![ind + 1] = [start |-> s, end |-> e, text |-> q]]
    /\ acc' = acc \cup {ind}
    /\ pc' = "cap_tok"
    /\ UNCHANGED <<static, len_ret, loopvars, winvars, ind, mi, q, s, e,
                   cap_emb, text, ret>>

\* sen of lines 418-420
Sentence(t) == IF IsStr(t) THEN t ELSE Blank

\* lines 417-430: the text handed to the tokenizer, and the caption's window
\* becomes the target window
CapTok ==
    /\ pc = "cap_tok"
    /\ text' = IF cfg.sample < 1 \/ cfg.mode # "train"
                 THEN Sentence(CellText(cap, ind))
                 ELSE NaN
    /\ start' = CellStart(cap, ind)
    /\ end' = CellEnd(cap, ind)
    /\ pc' = "plan"
    /\ UNCHANGED <<static, len_ret, loopvars, duration, cap, ind, mi, q, s, e,
                   acc, cap_emb, ret>>

----------------------------------------------------------------------------
(* Window planning, lines 431-468 *)

\* lines 431-437
Plan ==
    /\ pc = "plan"
    /\ IF start = None
         THEN \E w \in get_start_end_idx(duration, Sec(cfg.FD),
                                         temporal_sample_index,
                                         cfg.NUM_ENSEMBLE_VIEWS) :
                 /\ start' = w[1]
                 /\ end' = w[2]
         ELSE UNCHANGED <<start, end>>
    /\ pc' = "recenter"
    /\ UNCHANGED <<static, len_ret, loopvars, duration, capvars, ret>>

\* lines 438-440
Recenter ==
    /\ pc = "recenter"
    /\ IF NeedsRecenter(start, end, Sec(cfg.FD))
         THEN LET w == Recentered(start, end, Sec(cfg.FD), duration)
              IN  /\ start' = w[1]
                  /\ end' = w[2]
         ELSE UNCHANGED <<start, end>>
    /\ pc' = "reconcile"
    /\ UNCHANGED <<static, len_ret, loopvars, duration, capvars, ret>>

\* lines 441-458
Reconcile ==
    /\ pc = "reconcile"
    /\ \E w \in Reconciled(start, end, Sec(cfg.FD), Sec(cfg.NUM_FRAMES),
                           temporal_sample_index, cfg.NUM_ENSEMBLE_VIEWS) :
         /\ start' = w[1]
         /\ end' = w[2]
    /\ pc' = "fix_end"
    /\ UNCHANGED <<static, len_ret, loopvars, duration, capvars, ret>>

\* lines 459-468, the manifest row has a start and an end
FixEnd ==
    /\ pc = "fix_end"
    /\ ~(cfg.FIX_END /\ Sample.start = None)
    /\ IF cfg.FIX_END
         THEN \E w \in FixEndWindows(Sec(Sample.start), Sec(Sample.end),
                                     Sec(cfg.FD), temporal_sample_index,
                                     cfg.NUM_ENSEMBLE_VIEWS) :
                 /\ start' = w[1]
                 /\ end' = w[2]
         ELSE UNCHANGED <<start, end>>
    /\ pc' = "decode"
    /\ UNCHANGED <<static, len_ret, loopvars, duration, capvars, ret>>

\* line 462 with self._start[index] None: end - start raises TypeError
FixEndRaise ==
    /\ pc = "fix_end"
    /\ cfg.FIX_END /\ Sample.start = None
    /\ ret' = [NoResult EXCEPT !.status = "TypeError"]
    /\ pc' = "done"
    /\ UNCHANGED <<static, len_ret, loopvars, winvars, capvars>>

----------------------------------------------------------------------------
(* Decoding and the end of the attempt, lines 470-542 *)

\* get_video divides by end - start (line 36); its caller catches the error
DecodeCanSucceed == cfg.backend = "ffmpeg" => end # start

\* frames is not None: the tuple is assembled and returned
DecodeOk ==
    /\ pc = "decode"
    /\ DecodeCanSucceed
    /\ ret' = [status |-> "returned",
               frames |-> <<Sample.path, start, end, temporal_sample_index,
                            spatial_sample_index>>,
               label  |-> Sample.label,
               index  |-> index,
               text   |-> text,
               emb    |-> cap_emb]
    /\ pc' = "done"
    /\ UNCHANGED <<static, len_ret, loopvars, winvars, capvars>>

\* frames is None: lines 498-510
DecodeFail ==
    /\ pc = "decode"
    /\ substituted' = DecodeFailDraws(cfg.mode, i_try, cfg.num_retries)
    /\ index' \in (IF substituted' THEN RandomIndex(N) ELSE {index})
    /\ i_try' = i_try + 1
    /\ pc' = "loop"
    /\ UNCHANGED <<static, len_ret, attempts, temporal_sample_index,
                   spatial_sample_index, video_container, winvars, capvars, ret>>

----------------------------------------------------------------------------
(* Configurations, manifests and caption tables *)

Config(mode, num_retries, backend, fd, num_frames, fix_end, caps, min_len, sample, em, crops, views) ==
    [mode |-> mode, num_retries |-> num_retries, backend |-> backend,
     FD |-> fd, NUM_FRAMES |-> num_frames, FIX_END |-> fix_end,
     caps |-> caps, caps_emb |-> caps, min_len |-> min_len, sample |-> sample,
     em |-> em, NUM_SPATIAL_CROPS |-> crops, NUM_ENSEMBLE_VIEWS |-> views]

\* a manifest line of 3, 5 or 6 fields; the label tells the lines apart
Line(nf, label, dur, st, en) ==
    [nf |-> nf, label |-> label, duration |-> dur, start |-> st, end |-> en]

\* a caption row; its text is one word of its own, or not a str
CapRow(k, times, is_str) ==
    [start |-> Sec(times[1]), end |-> Sec(times[2]),
     text |-> IF is_str THEN <<k>> ELSE NaN]

CapTimes == {<<0, 2>>, <<1, 3>>}

\* every table of n rows
TablesOfLen(n) ==
    {[k \in 1..n |-> CapRow(k - 1, f[k][1], f[k][2])] :
        f \in [1..n -> CapTimes \X BOOLEAN]}

Tables == UNION {TablesOfLen(n) : n \in 1..MaxCap}

\* the table of video p in the runs of __getitem__: p + 1 rows, capped
FetchTable(p) ==
    [k \in 1..Min(p + 1, MaxCap) |->
        CapRow(k - 1, IF k % 2 = 1 THEN <<0, 2>> ELSE <<1, 3>>, k # 2)]

\* the manifests of the runs of __getitem__: lines of 3 fields, of 5 fields,
\* or of 3 and 6 fields in turn
FetchManifest(kind, n) ==
    [k \in 1..n |->
        CASE kind = "three" -> Line(3, k, MaxDuration, None, None)
          [] kind = "five"  -> Line(5, k, MaxDuration, 1, 2)
          [] OTHER -> IF k % 2 = 1
                        THEN Line(3, k, MaxDuration, None, None)
                        ELSE Line(6, k, MaxDuration, 0, MaxDuration)]

FetchManifests ==
    {FetchManifest(kind, n) : kind \in {"three", "five", "mixed"}, n \in 1..MaxLines}

HasText(lines) == \E k \in DOMAIN lines : lines[k].nf = 6

Modes == {"train", "val", "test"}

FetchConfigs ==
    {Config(m, r, b, MaxFD, 1, fx, c[1], c[2], 0, em, vc[2], vc[1]) :
        m \in Modes, r \in 0..MaxRetries, b \in {"ffmpeg", "pyav"},
        fx \in BOOLEAN, c \in {<<FALSE, 0>>, <<TRUE, 0>>, <<TRUE, MaxMinLen>>},
        em \in {None, MaxEm}, vc \in ViewChoices \X CropChoices}

\* for train and val num_clips is 1 whatever the test options are
FetchConfigOk(c) ==
    c.mode # "test" => c.NUM_ENSEMBLE_VIEWS = 1 /\ c.NUM_SPATIAL_CROPS = 1

\* a constructed dataset on which nothing was called yet
Constructed(c, lines, tables) ==
    /\ cfg = c
    /\ samples = construct_loader(lines, NumClips(c.mode, c.NUM_ENSEMBLE_VIEWS,
                                                  c.NUM_SPATIAL_CROPS))
    /\ labels = HasText(lines)
    /\ captions = tables
    /\ len_ret = None
    /\ index = None /\ i_try = None /\ attempts = 0 /\ substituted = FALSE
    /\ temporal_sample_index = None /\ spatial_sample_index = None
    /\ video_container = None
    /\ DeadLocals
    /\ ret = NoResult

Init ==
    /\ pc = "new"
    /\ \E c \in FetchConfigs, lines \in FetchManifests :
         /\ FetchConfigOk(c)
         /\ Constructed(c, lines, [p \in Range(Len(lines)) |-> FetchTable(p)])

Next ==
    \/ DatasetLen
    \/ GetItem
    \/ LoopBody
    \/ LoopExhausted
    \/ OpenOk
    \/ OpenFail
    \/ ReadRow
    \/ ReadCapRaise
    \/ ReadCap
    \/ ExpInit
    \/ ExpTest
    \/ ExpPrev
    \/ ExpNext
    \/ ExpInc
    \/ ExpStore
    \/ CapTok
    \/ Plan
    \/ Recenter
    \/ Reconcile
    \/ FixEnd
    \/ FixEndRaise
    \/ DecodeOk
    \/ DecodeFail

Spec == Init /\ [][Next]_vars

----------------------------------------------------------------------------
(* The caption block alone: an attempt that has read its manifest row and is
   about to read the caption table, for every table of up to MaxCap rows,
   every MIN_LEN and a row with or without a window of its own *)

CaptionConfigs ==
    {Config("train", 1, "ffmpeg", MaxFD, 1, FALSE, TRUE, ml, sm, None, 1, 1) :
        ml \in 0..MaxMinLen, sm \in {0, 1}}

CaptionLines ==
    {<<Line(3, 1, MaxDuration, None, None)>>}
      \cup {<<Line(5, 1, MaxDuration, a, a + 1)>> : a \in 0..(MaxDuration - 1)}

\* the state of an attempt that has just read row i of the manifest
InAttempt(c, lines, tables, i) ==
    /\ cfg = c
    /\ samples = construct_loader(lines, NumClips(c.mode, c.NUM_ENSEMBLE_VIEWS,
                                                  c.NUM_SPATIAL_CROPS))
    /\ labels = HasText(lines)
    /\ captions = tables
    /\ len_ret = DatasetLength(N, c.em, c.mode)
    /\ index = i /\ i_try = 0 /\ attempts = 1 /\ substituted = FALSE
    /\ temporal_sample_index =
         TemporalIndex(c.mode, samples[i].spatial_temporal_idx, c.NUM_SPATIAL_CROPS)
    /\ spatial_sample_index =
         SpatialIndex(c.mode, samples[i].spatial_temporal_idx, c.NUM_SPATIAL_CROPS)
    /\ video_container = None
    /\ duration = Sec(samples[i].duration)
    /\ mi = None /\ q = NaN /\ s = None /\ e = None /\ acc = {}
    /\ ret = NoResult

InitCaption ==
    /\ pc = "read_cap"
    /\ \E c \in CaptionConfigs, lines \in CaptionLines, tbl \in Tables :
         /\ InAttempt(c, lines, [p \in {0} |-> tbl], 0)
         /\ cap = << >> /\ ind = None /\ cap_emb = << >> /\ text = NaN
         /\ start = IF samples[0].start = None THEN None ELSE Sec(samples[0].start)
         /\ end = IF samples[0].end = None THEN None ELSE Sec(samples[0].end)

NextCaption ==
    \/ ReadCap
    \/ ExpInit
    \/ ExpTest
    \/ ExpPrev
    \/ ExpNext
    \/ ExpInc
    \/ ExpStore
    \/ CapTok

\* the block is straight-line code and a loop in one thread: while a step is
\* left to take, it is taken
SpecCaption == InitCaption /\ [][NextCaption]_vars /\ WF_vars(NextCaption)

----------------------------------------------------------------------------
(* Window planning alone: an attempt about to plan its window, for every FD,
   duration and manifest window, and, with captions configured, for every
   window a caption table may have left in (start, end) *)

WindowConfigs ==
    {Config(mv[1], 1, "ffmpeg", fd, nf, fx, FALSE, 0, 0, None, 1, mv[2]) :
        mv \in {<<"train", 1>>} \cup ({"test"} \X ViewChoices),
        fd \in 0..MaxFD, nf \in {1, 2}, fx \in BOOLEAN}

WindowLines ==
    {<<Line(3, 1, d, None, None)>> : d \in 1..MaxDuration}
      \cup {<<Line(5, 1, d, ab[1], ab[2])>> :
              d \in 1..MaxDuration,
              ab \in {x \in (0..MaxDuration) \X (0..MaxDuration) : x[1] <= x[2]}}

WindowLineOk(ln) == ln.nf = 3 \/ ln.end <= ln.duration

\* the window of a caption row: any start <= end, the table is not tied to
\* the video's duration
CaptionWindows ==
    {x \in (0..(MaxDuration + 1)) \X (0..(MaxDuration + 1)) : x[1] <= x[2]}

\* with captions the manifest line has no window, or the whole video as one
WindowCapsOk(ln) == ln.nf = 3 \/ (ln.start = 0 /\ ln.end = ln.duration)

InitWindow ==
    /\ pc = "plan"
    /\ \E c \in WindowConfigs, lines \in WindowLines, withcaps \in BOOLEAN :
         /\ WindowLineOk(lines[1])
         /\ withcaps => WindowCapsOk(lines[1])
         /\ \E i \in Range(NumClips(c.mode, c.NUM_ENSEMBLE_VIEWS, c.NUM_SPATIAL_CROPS)) :
              InAttempt([c EXCEPT !.caps = withcaps, !.caps_emb = withcaps],
                        lines, [p \in {0} |-> << >>], i)
         /\ IF withcaps
              THEN \E w \in CaptionWindows :
                     /\ cap = <<[start |-> Sec(w[1]), end |-> Sec(w[2]), text |-> <<0>>]>>
                     /\ ind = 0
                     /\ cap_emb = <<0, 0>>
                     /\ text = <<0>>
                     /\ start = Sec(w[1])
                     /\ end = Sec(w[2])
              ELSE /\ cap = << >> /\ ind = None /\ cap_emb = << >> /\ text = NaN
                   /\ start = IF lines[1].nf = 3 THEN None ELSE Sec(lines[1].start)
                   /\ end = IF lines[1].nf = 3 THEN None ELSE Sec(lines[1].end)

NextWindow ==
    \/ Plan
    \/ Recenter
    \/ Reconcile
    \/ FixEnd
    \/ FixEndRaise

SpecWindow == InitWindow /\ [][NextWindow]_vars

----------------------------------------------------------------------------
(* __len__ and the index wrap alone, for every EPOCH_MUL, mode and manifest of
   up to MaxLines lines *)

LenConfigs ==
    {Config(m, 1, "ffmpeg", MaxFD, 1, FALSE, FALSE, 0, 0, em, vc[2], vc[1]) :
        m \in Modes, em \in {None} \cup (0..MaxEm),
        vc \in ViewChoices \X CropChoices}

LenManifests ==
    {FetchManifest(kind, n) : kind \in {"three", "five"}, n \in 1..(MaxLines + 1)}

InitLen ==
    /\ pc = "new"
    /\ \E c \in LenConfigs, lines \in LenManifests :
         Constructed(c, lines, [p \in Range(Len(lines)) |-> FetchTable(p)])

NextLen ==
    \/ DatasetLen
    \/ GetItem

SpecLen == InitLen /\ [][NextLen]_vars

----------------------------------------------------------------------------
(* Properties *)

\* the running steps of one attempt that end it in failure
FailStep == pc \in {"open", "decode"} /\ pc' = "loop"

\* the manifest row of the attempt makes the window planning raise
PlanningRaises ==
    /\ Sample.start = None
    /\ cfg.FIX_END \/ (~cfg.caps /\ labels)

(* C1: one __getitem__ begins at most num_retries loop bodies; it falls off the
   loop only after exactly num_retries failed bodies, and then hands back None
   and nothing else; no failure branch raises (an error comes only from the
   window planning of a row without start and end); and the call cannot stop
   anywhere but at its end. *)
C1_BoundedRetries ==
    /\ attempts <= cfg.num_retries
    /\ pc \notin {"new", "idle"} => i_try <= cfg.num_retries
    /\ pc \notin {"new", "idle", "loop", "done"} => attempts = i_try + 1
    /\ ret.status = "None" =>
         /\ attempts = cfg.num_retries
         /\ i_try = cfg.num_retries
         /\ ret = [NoResult EXCEPT !.status = "None"]
    /\ ret.status = "TypeError" => PlanningRaises
    /\ pc = "done" \/ ENABLED Next

\* every body of a budget of MaxRetries failed, and the call returned None
C1_Witness ==
    /\ pc = "done"
    /\ ret.status = "None"
    /\ cfg.num_retries = MaxRetries
    /\ attempts = MaxRetries

(* C2: in train and val every failed attempt, at the container or at the
   decoder and whatever i_try is, draws a new random index. *)
C2_NonTestAlwaysSubstitutes ==
    [][(FailStep /\ cfg.mode # "test") => substituted']_vars

(* C3: in test mode a failed attempt, at the container or at the decoder,
   keeps the index while i_try <= num_retries div 2 and draws a random one
   once i_try > num_retries div 2. *)
C3_TestSubstitutesAfterHalf ==
    [][(FailStep /\ cfg.mode = "test") =>
          (substituted' <=> i_try > cfg.num_retries \div 2)]_vars

(* C4: a returned tuple is that of the sample at the returned index: the
   frames decoded from its path, its label, the embedding row of its video,
   and a window planned with its temporal and spatial clip index. *)
C4_SelfConsistentTuple ==
    ret.status = "returned" =>
        LET smp == samples[ret.index]
        IN  /\ ret.frames[1] = smp.path
            /\ ret.label = smp.label
            /\ (cfg.caps_emb => ret.emb[1] = smp.path)
            /\ ret.frames[4] =
                 TemporalIndex(cfg.mode, smp.spatial_temporal_idx, cfg.NUM_SPATIAL_CROPS)
            /\ ret.frames[5] =
                 SpatialIndex(cfg.mode, smp.spatial_temporal_idx, cfg.NUM_SPATIAL_CROPS)

(* C5: the window handed to the decoder lies in the video:
   0 <= start <= end <= duration. *)
C5_WindowInsideVideo ==
    pc = "decode" => 0 <= start /\ start <= end /\ end <= duration

\* the window the planning starts from: the manifest's under FIX_END, else the
\* caption row's when captions are configured, else the manifest's (or None)
SourceStart ==
    IF ~cfg.FIX_END /\ cfg.caps THEN CellStart(cap, ind)
    ELSE IF Sample.start = None THEN None ELSE Sec(Sample.start)

SourceEnd ==
    IF ~cfg.FIX_END /\ cfg.caps THEN CellEnd(cap, ind)
    ELSE IF Sample.end = None THEN None ELSE Sec(Sample.end)

Inside(st, en, dur) == 0 <= st /\ st <= en /\ en <= dur

(* C5, as amended: the window handed to the decoder satisfies
   0 <= start <= end <= duration whenever the window it is derived from (the
   caption row's, or the manifest's start and end) satisfies it, where under
   FIX_END with FD < end - start also FD >= 1 is needed; and, when there is no
   such window, whenever 1 <= FD <= duration + 1. *)
C5_WindowInsideVideoWhenSourceIs ==
    pc = "decode" =>
        IF SourceStart = None
          THEN (1 <= cfg.FD /\ Sec(cfg.FD) <= duration + Sec(1))
                  => Inside(start, end, duration)
          ELSE (/\ Inside(SourceStart, SourceEnd, duration)
                /\ (cfg.FIX_END /\ Sec(cfg.FD) < SourceEnd - SourceStart) => cfg.FD >= 1)
                  => Inside(start, end, duration)

\* a short caption window at the end of the video was re-centred and clamped
C5_Witness ==
    /\ pc = "decode"
    /\ cfg.caps /\ ~cfg.FIX_END
    /\ Inside(SourceStart, SourceEnd, duration)
    /\ NeedsRecenter(SourceStart, SourceEnd, Sec(cfg.FD))
    /\ SourceEnd = duration
    /\ end = duration
    /\ start < SourceStart

\* the step of lines 438-440 on a short window that lies in the video
RecenterStep ==
    /\ pc = "recenter"
    /\ pc' = "reconcile"
    /\ NeedsRecenter(start, end, Sec(cfg.FD))
    /\ Inside(start, end, duration)

(* C6: re-centring a window with 0 <= start <= end <= duration and
   end - start < FD - 1 gives a window no shorter than min(FD, duration). *)
C6_RecenterKeepsLength ==
    [][RecenterStep => end' - start' >= Min(Sec(cfg.FD), duration)]_vars

(* C6, as amended: the re-centred window has 0 <= start' <= end' <= duration and
   length exactly min(FD, duration - start'); that is at least
   min(FD, duration) when start' = 0 or start' + FD <= duration, and less
   when the window is cut at the end of the video. *)
C6_RecenterLength ==
    [][RecenterStep =>
          /\ Inside(start', end', duration)
          /\ end' - start' = Min(Sec(cfg.FD), duration - start')
          /\ IF start' = 0 \/ start' + Sec(cfg.FD) <= duration
               THEN end' - start' >= Min(Sec(cfg.FD), duration)
               ELSE end' - start' < Min(Sec(cfg.FD), duration)]_vars

\* a short window at the end of the video was re-centred and came out cut
C6_Witness ==
    /\ pc = "reconcile"
    /\ SourceStart # None
    /\ Inside(SourceStart, SourceEnd, duration)
    /\ NeedsRecenter(SourceStart, SourceEnd, Sec(cfg.FD))
    /\ start < SourceStart
    /\ end = duration
    /\ end - start < Min(Sec(cfg.FD), duration)

\* the attempt had no window and get_start_end_idx planned one over the video
PlannedOverVideo == Sample.start = None /\ ~cfg.caps

(* C7: get_start_end_idx(video_size, clip_size, clip_idx, num_clips) returns
   end = start + clip_size - 1 with 0 <= start <= max(video_size - clip_size, 0);
   for clip_idx # -1 the start is max(video_size - clip_size, 0) * clip_idx /
   num_clips whatever the random source gives; (100, 20, 2, 4) gives (40, 59). *)
C7_UniformWindow ==
    /\ get_start_end_idx(Sec(100), Sec(20), 2, 4) = {<<Sec(40), Sec(59)>>}
    /\ (pc = "recenter" /\ PlannedOverVideo) =>
          LET clip == Sec(cfg.FD)
              room == IF duration - clip >= 0 THEN duration - clip ELSE 0
          IN  /\ end = start + clip - Sec(1)
              /\ 0 <= start /\ start <= room
              /\ temporal_sample_index # -1 =>
                    start * cfg.NUM_ENSEMBLE_VIEWS = room * temporal_sample_index

\* the second of two test clips starts half the free room into the video
C7_Witness ==
    /\ pc = "recenter"
    /\ PlannedOverVideo
    /\ cfg.NUM_ENSEMBLE_VIEWS = 2
    /\ temporal_sample_index = 1
    /\ start > 0
    /\ 2 * start = duration - Sec(cfg.FD)

\* the overlap of caption row i of video p with the window (st, en)
RowOverlap(p, i, st, en) ==
    LET r == captions[p][i + 1]
        lo == IF st >= r.start THEN st ELSE r.start
        hi == IF en <= r.end THEN en ELSE r.end
    IN  IF hi - lo > 0 THEN hi - lo ELSE 0

(* C8: with a target window known, the row picked is the one of lowest index
   among those of greatest overlap max(min(end, r.end) - max(start, r.start), 0);
   row 0 when every overlap is 0; the first row for rows (0,5), (4,10), (20,25)
   and window (3,6). *)
C8_FirstBestOverlap ==
    /\ argmax(Overlaps(<<[start |-> Sec(0), end |-> Sec(5), text |-> <<0>>],
                         [start |-> Sec(4), end |-> Sec(10), text |-> <<1>>],
                         [start |-> Sec(20), end |-> Sec(25), text |-> <<2>>]>>,
                       Sec(3), Sec(6))) = 0
    /\ (ind # None /\ Sample.start # None) =>
          LET p == Sample.path
              st == Sec(Sample.start)
              en == Sec(Sample.end)
              rows == Range(Len(captions[p]))
          IN  /\ ind \in rows
              /\ \A j \in rows : RowOverlap(p, j, st, en) <= RowOverlap(p, ind, st, en)
              /\ \A j \in rows : j < ind =>
                    RowOverlap(p, j, st, en) < RowOverlap(p, ind, st, en)
              /\ (\A j \in rows : RowOverlap(p, j, st, en) = 0) => ind = 0

\* two rows tie at a positive overlap and the first was picked
C8_Witness ==
    /\ pc = "plan"
    /\ Sample.start # None
    /\ Len(captions[Sample.path]) >= 2
    /\ ind = 0
    /\ RowOverlap(Sample.path, 0, Sec(Sample.start), Sec(Sample.end)) > 0
    /\ RowOverlap(Sample.path, 1, Sec(Sample.start), Sec(Sample.end))
         = RowOverlap(Sample.path, 0, Sec(Sample.start), Sec(Sample.end))

\* a step of the expansion loop that merges a row's text into q
MergeStep == pc \in {"exp_prev", "exp_next"} /\ q' # q

(* C9: the expansion loop performs no merge once the word count of q has
   reached min_len (with termination and subscripts in range, which hold). *)
C9_NoMergeOnceLongEnough ==
    [][MergeStep => SplitLen(q) < cfg.min_len]_vars

\* the safety half of C9 as amended
C9_LoopSafe ==
    /\ acc \subseteq Range(Len(captions[Sample.path]))
    /\ pc \in {"exp_test", "exp_prev", "exp_next", "exp_inc", "exp_store"} =>
          mi <= Len(cap)
    /\ pc = "exp_prev" => SplitLen(q) < cfg.min_len
    /\ pc = "exp_store" =>
          \/ SplitLen(q) >= cfg.min_len
          \/ (ind - mi <= 0 /\ ind + mi >= Len(cap))

(* C9, as amended: for every table, every picked row and every min_len > 0 the
   expansion loop terminates, subscripts only rows inside [0, len(cap)), and
   begins no further round of merges once the word count of q is >= min_len at
   the loop test (inside a round the merge of the following row is still made
   after the merge of the preceding row has reached min_len); short of that
   it stops only when ind - mi <= 0 and ind + mi >= len(cap). *)
C9_ExpansionLoop == []C9_LoopSafe /\ <>(pc = "plan")

\* the loop ran more than one round and stopped on the word count
C9_Witness ==
    /\ pc = "exp_store"
    /\ mi >= 2
    /\ SplitLen(q) >= cfg.min_len
    /\ ind + mi < Len(cap)

(* C10: len(dataset) is N * EPOCH_MUL in train mode with EPOCH_MUL > 1 and N,
   the manifest lines times num_clips, in every other case; 10 lines with
   multiplier 3 give 30 in train and 10 in val and test. *)
C10_Length ==
    /\ DatasetLength(10, 3, "train") = 30
    /\ DatasetLength(10, 3, "val") = 10
    /\ DatasetLength(10, 3, "test") = 10
    /\ len_ret # None =>
          LET lines == Cardinality({samples[k].path : k \in DOMAIN samples})
              clips == IF cfg.mode = "test"
                         THEN cfg.NUM_ENSEMBLE_VIEWS * cfg.NUM_SPATIAL_CROPS
                         ELSE 1
              multiplied == cfg.mode = "train" /\ cfg.em # None /\ cfg.em > 1
          IN  /\ N = lines * clips
              /\ multiplied => len_ret = N * cfg.em
              /\ ~multiplied => len_ret = N
              /\ pc = "loop" => index \in Range(N)

\* a val dataset with a multiplier above 1 reports its true length
C10_Witness ==
    /\ pc = "loop"
    /\ cfg.mode = "val"
    /\ cfg.em = MaxEm
    /\ N >= 2
    /\ len_ret = N
    /\ index = N - 1

\* the first attempt of a __getitem__ in test mode
FirstTestAttempt == cfg.mode = "test" /\ i_try = 0

(* C11: in test mode the first attempt is deterministic: whatever the random
   source yields, the caption row picked and the window left in (start, end)
   by every planning step are the same, for the same index, manifest and
   caption tables, also with captions configured and a manifest row without
   start and end. *)
C11_TestDeterministic ==
    [][FirstTestAttempt =>
          /\ (pc = "read_cap" /\ pc' # "done") =>
                \A r \in PickRows(captions[Sample.path], start, end) : r = ind'
          /\ (pc = "plan" /\ start = None) =>
                \A w \in get_start_end_idx(duration, Sec(cfg.FD),
                                           temporal_sample_index,
                                           cfg.NUM_ENSEMBLE_VIEWS) :
                    w = <<start', end'>>
          /\ pc = "reconcile" =>
                \A w \in Reconciled(start, end, Sec(cfg.FD), Sec(cfg.NUM_FRAMES),
                                    temporal_sample_index,
                                    cfg.NUM_ENSEMBLE_VIEWS) :
                    w = <<start', end'>>
          /\ (pc = "fix_end" /\ pc' = "decode" /\ cfg.FIX_END) =>
                \A w \in FixEndWindows(Sec(Sample.start), Sec(Sample.end),
                                       Sec(cfg.FD), temporal_sample_index,
                                       cfg.NUM_ENSEMBLE_VIEWS) :
                    w = <<start', end'>>]_vars

\* the table as read, before the expansion writes to it
Table == captions[Sample.path]

\* the texts of rows lo..hi in table order, row ind as the text the loop
\* starts from; a row that is not a str adds nothing
RECURSIVE Joined(_, _)
Joined(lo, hi) ==
    IF lo > hi THEN << >>
    ELSE (IF lo = ind THEN Sentence(CellText(Table, lo)) ELSE CellText(Table, lo))
            \o Joined(lo + 1, hi)

\* the rows of lo..hi whose text went into the merge
MergedRows(lo, hi) ==
    {k \in lo..hi : k = ind \/ IsStr(CellText(Table, k))}

Least(S) == CHOOSE x \in S : \A y \in S : x <= y
Greatest(S) == CHOOSE x \in S : \A y \in S : x >= y

(* C12: when the picked row has fewer than min_len words, the merged text is
   the texts of a contiguous range of rows around ind in table order, the
   picked row's own text once and every other from a neighbour whose text is
   a str; every neighbour inside the table, row 0 included, can be pulled, so
   a merge that ends short of min_len has pulled them all; start and end are
   the start of the earliest and the end of the latest row merged. *)
C12_MergedText ==
    (pc = "exp_store" /\ SplitLen(Sentence(CellText(Table, ind))) < cfg.min_len) =>
        \E lo \in 0..ind, hi \in ind..(Len(Table) - 1) :
            /\ q = Joined(lo, hi)
            /\ s = CellStart(Table, Least(MergedRows(lo, hi)))
            /\ e = CellEnd(Table, Greatest(MergedRows(lo, hi)))
            /\ SplitLen(q) < cfg.min_len => (lo = 0 /\ hi = Len(Table) - 1)

(* C13: under FIX_END with fixedStart <= fixedEnd the window handed to the
   decoder lies in the manifest's window,
   fixedStart <= start <= end <= fixedEnd, whether FD >= fixedEnd - fixedStart
   or FD < fixedEnd - fixedStart; stated for a clip duration FD of a second
   or more. *)
C13_FixEndInsideDeclared ==
    (pc = "decode" /\ cfg.FIX_END /\ cfg.FD >= 1 /\ Sample.start <= Sample.end) =>
        /\ Sec(Sample.start) <= start
        /\ start <= end
        /\ end <= Sec(Sample.end)

====
